---- MODULE Spec2Model ----
(***************************************************************************)
(* SmartPronote, src/utils/pronote.ts: five in-memory caches (sessions,    *)
(* grades, timetable, homeworks, averages) keyed by username, filled by    *)
(* asynchronous operations that await a call of the pawnote library, and   *)
(* emptied by setTimeout callbacks that are never cancelled.               *)
(*                                                                         *)
(* Time is discrete; one tick is 30 seconds.  A pending timer carries the  *)
(* ticks left before it is due and a cache entry carries the ticks since   *)
(* it was inserted, so the clock itself is not part of the state.  A timer *)
(* that is due runs before time advances further.                          *)
(*                                                                         *)
(* get-task-list-id.js, a script of its own, asks the Google Tasks API for *)
(* the task lists and returns the identifier of the default one.           *)
(***************************************************************************)
EXTENDS Integers, FiniteSets, Sequences, TLC

\* ---------------------------------------------------------------- bounds
\* library calls (loginCredentials, gradebook, timetableFromIntervals, ...)
\* issued in one run
MaxCalls == 2
\* config.refreshEvery, in ticks
RefreshEvery == 3
\* config.accountTimeout, in ticks
AccountTimeout == 6
\* task lists in one answer of tasks.tasklists.list()
MaxLists == 3

\* ------------------------------------------------------ program constants
\* 30 * 1000 ms
ThirtySeconds == 1
\* 2 * 60 * 1000 ms
TwoMinutes == 4

\* the callers that may await an operation at the same time
Callers == {"k1", "k2"}
Usernames == {"u1", "u2"}
\* config.accounts
Accounts ==
  { [url |-> "a", username |-> "u1", password |-> "x"],
    [url |-> "a", username |-> "u2", password |-> "y"] }

DataCaches == {"grades", "timetable", "homeworks", "averages"}
CacheNames == {"sessions"} \cup DataCaches

\* the margin forgotten: the entry is kept for the whole refresh period
cacheTtl_NoMargin == RefreshEvery
\* config.refreshEvery - 30 * 1000
cacheTtl == RefreshEvery - ThirtySeconds
\* config.accountTimeout - 2 * 60 * 1000
sessionTtl == AccountTimeout - TwoMinutes
\* ages are counted up to this value and no further
AgeCap == AccountTimeout + 1

VARIABLES
  caches,    \* caches[c][u]: the entry of username u in cache c
  timers,    \* the pending setTimeout callbacks, each with its multiplicity
  pending,   \* the calls that await the library
  issued,    \* number of library calls issued so far
  returned,  \* the settlement the awaiting caller is about to resume with
  refresh,   \* the periodic caller: what it refreshes and in how many ticks
  task       \* the run of getTaskListId of get-task-list-id.js

vars == <<caches, timers, pending, issued, returned, refresh, task>>

\* -------------------------------------------------------------- values
NoAccount == [url |-> "", username |-> "", password |-> ""]
\* a session handle: id tells the objects createSessionHandle() returned
\* apart (the issue number of the login), account is what loginCredentials
\* was called with
NoHandle == [id |-> 0, account |-> NoAccount]
\* the session argument of a data operation: a handle its caller holds for
\* account a.  The data operations only pass it on to the library, so which
\* of the handles authenticated for a it is makes no difference to them.
SessionOf(a) == [id |-> 0, account |-> a]
SessionsOf(u) == {SessionOf(a) : a \in {x \in Accounts : x.username = u}}
NoBody == [list |-> <<>>, value |-> 0, everyone |-> 0]
\* a value held by a cache or returned by an operation: a session handle, or
\* a result (seq: the library call it came from in issue order, 0 for none;
\* via: the handle that call was made with; body: the reshaped data)
NoValue == [handle |-> NoHandle, seq |-> 0, via |-> NoHandle, body |-> NoBody]
NoEntry == [present |-> FALSE, val |-> NoValue, age |-> 0]

\* what the library promise settles with: a rejection, or an answer that
\* holds no item (mark, lesson, assignment) or one
Null == [null |-> TRUE, items |-> 0]
Raw(n) == [null |-> FALSE, items |-> n]
Rejected == [rejected |-> TRUE, raw |-> Null]
Resolved(n) == [rejected |-> FALSE, raw |-> Raw(n)]
Outcomes == {Rejected, Resolved(0), Resolved(1)}

\* no periodic caller
NoRefresh == [op |-> "none", key |-> "", in |-> 0]

\* a call: the operation, its arguments, and for a data operation the issue
\* number of its library call
Call(op, u, a, s, seq, periodic) ==
  [op |-> op, key |-> u, account |-> a, session |-> s, seq |-> seq,
   periodic |-> periodic]

\* the settlement of a call: how the promise the operation returned ended
\* (resolved or rejected), whether the value came from the cache (hit),
\* whether the library call failed, and the value
NoReturn ==
  [op |-> "none", key |-> "", account |-> NoAccount, session |-> NoHandle,
   seq |-> 0, periodic |-> FALSE,
   how |-> "none", hit |-> FALSE, failed |-> FALSE, val |-> NoValue]
Settled(call, how, hit, failed, v) ==
  [op |-> call.op, key |-> call.key, account |-> call.account,
   session |-> call.session, seq |-> call.seq, periodic |-> call.periodic,
   how |-> how, hit |-> hit, failed |-> failed, val |-> v]

\* get-task-list-id.js: a value that is a task list ({title, id}) or
\* undefined
Undefined == [defined |-> FALSE, title |-> "", id |-> 0]
TaskList(title, id) == [defined |-> TRUE, title |-> title, id |-> id]
\* what getTaskListId has settled with: the promise resolved or rejected,
\* and the value, a list id or undefined
NoResult == [how |-> "none", defined |-> FALSE, id |-> 0]
\* response.data of tasks.tasklists.list(): rejected, or resolved with
\* items an array of task lists or missing
NoReply == [rejected |-> FALSE, message |-> "", hasItems |-> FALSE, items |-> <<>>]
\* the script is not running
NoTask ==
  [pc |-> "none", file |-> "", reply |-> NoReply, error |-> "",
   listed |-> 0, logged |-> <<>>, result |-> NoResult]

\* ------------------------------------------------------------- helpers
\* the session looked up under a key no entry is stored under
Cached_WrongKey(c, u) == c # "sessions" /\ caches[c][u].present
\* an empty list taken for no value
Cached_NonEmpty(c, u) ==
  /\ caches[c][u].present
  /\ c \in {"grades", "timetable", "homeworks"} => caches[c][u].val.body.list # <<>>
\* Map.get followed by `if (cached)`: every stored value is an object or an
\* array, hence truthy, so the test succeeds exactly when the key is present
Cached(c, u) == caches[c][u].present

\* the entry written only where there is none
CacheSet_IfAbsent(cs, c, u, v) ==
  IF cs[c][u].present THEN cs
  ELSE [cs EXCEPT ![c][u] = [present |-> TRUE, val |-> v, age |-> 0]]
\* Map.set(u, v)
CacheSet(cs, c, u, v) ==
  [cs EXCEPT ![c][u] = [present |-> TRUE, val |-> v, age |-> 0]]

\* the whole cache emptied, Map.clear() for Map.delete(u)
CacheDelete_Clear(cs, c, u) == [cs EXCEPT ![c] = [x \in Usernames |-> NoEntry]]
\* Map.delete(u)
CacheDelete(cs, c, u) == [cs EXCEPT ![c][u] = NoEntry]

\* a pending callback `() => caches[c].delete(u)`: the ticks left before it
\* is due, and n, the number of pending callbacks that agree on all of that
Timer(c, u, delay) == [cache |-> c, key |-> u, rem |-> delay, n |-> 1]
SameTimer(x, t) == x.cache = t.cache /\ x.key = t.key /\ x.rem = t.rem
Pending(ts, t) ==
  IF \E x \in ts : SameTimer(x, t)
    THEN (CHOOSE x \in ts : SameTimer(x, t)).n
    ELSE 0

\* the deletion never scheduled
SetTimeout_Dropped(ts, t) == ts
\* setTimeout(callback, delay)
SetTimeout(ts, t) ==
  {x \in ts : ~SameTimer(x, t)} \cup {[t EXCEPT !.n = Pending(ts, t) + 1]}

\* the callback that runs cancels the other callbacks of its cache and key
ClearTimer_Cancel(ts, t) == {x \in ts : ~(x.cache = t.cache /\ x.key = t.key)}
\* a callback has run and is no longer pending
ClearTimer(ts, t) ==
  {x \in ts : ~SameTimer(x, t)} \cup
    (IF Pending(ts, t) > 1 THEN {[t EXCEPT !.n = Pending(ts, t) - 1]} ELSE {})

Init ==
  /\ caches = [c \in CacheNames |-> [u \in Usernames |-> NoEntry]]
  /\ timers = {}
  /\ pending = {}
  /\ issued = 0
  /\ returned = NoReturn
  /\ refresh = NoRefresh
  /\ task = NoTask

\* No settlement is waiting for its caller.  The continuation of an awaiting
\* caller is a microtask: it runs before any other callback does.
Quiet == returned = NoReturn

\* the caller resumes with the value or the error
Resume ==
  /\ ~Quiet
  /\ returned' = NoReturn
  /\ UNCHANGED <<caches, timers, pending, issued, refresh, task>>

\* ---------------------------------------------------------- getSession
\* lines 29-39: the cache lookup, and on a miss createSessionHandle() and
\* the call of loginCredentials, up to the await
GetSessionStart(a) ==
  LET call == Call("sessions", a.username, a, NoHandle, 0, FALSE)
  IN /\ Quiet
     /\ IF Cached("sessions", a.username)
         THEN /\ returned' = Settled(call, "resolved", TRUE, FALSE,
                                     caches["sessions"][a.username].val)
              /\ UNCHANGED <<pending, issued>>
         ELSE /\ issued < MaxCalls
              /\ Cardinality(pending) < Cardinality(Callers)
              /\ issued' = issued + 1
              /\ pending' = pending \cup
                   {[call EXCEPT !.seq = issued + 1,
                                 !.session = [id |-> issued + 1, account |-> a]]}
              /\ returned' = NoReturn
     /\ UNCHANGED <<caches, timers, refresh, task>>

\* lines 46-53: loginCredentials resolved.  The callback of lines 42-44 has
\* an empty body and is not kept among the pending timers.
GetSessionLoggedIn(call) ==
  /\ Quiet
  /\ call \in pending
  /\ call.op = "sessions"
  /\ LET v == [NoValue EXCEPT !.handle = call.session]
     IN /\ caches' = CacheSet(caches, "sessions", call.key, v)
        /\ timers' = SetTimeout(timers, Timer("sessions", call.key, sessionTtl))
        /\ returned' = Settled(call, "resolved", FALSE, FALSE, v)
  /\ pending' = pending \ {call}
  /\ UNCHANGED <<issued, refresh, task>>

\* the rejection swallowed and the handle stored all the same
GetSessionLoginFailed_Stored(call) ==
  /\ Quiet
  /\ call \in pending
  /\ call.op = "sessions"
  /\ LET v == [NoValue EXCEPT !.handle = call.session]
     IN /\ caches' = CacheSet(caches, "sessions", call.key, v)
        /\ timers' = SetTimeout(timers, Timer("sessions", call.key, sessionTtl))
        /\ returned' = Settled(call, "resolved", FALSE, TRUE, v)
  /\ pending' = pending \ {call}
  /\ UNCHANGED <<issued, refresh, task>>

\* line 33: loginCredentials rejected; nothing catches it
GetSessionLoginFailed(call) ==
  /\ Quiet
  /\ call \in pending
  /\ call.op = "sessions"
  /\ returned' = Settled(call, "rejected", FALSE, TRUE, NoValue)
  /\ pending' = pending \ {call}
  /\ UNCHANGED <<caches, timers, issued, refresh, task>>

\* ------------------------------------- getGrades, getTimetable, ...
\* the rejection not caught
Catch_Missing(outcome) == outcome
\* `.catch(() => null)` on the library promise: a rejection becomes a
\* promise resolved with null
Catch(outcome) == IF outcome.rejected THEN [rejected |-> FALSE, raw |-> Null] ELSE outcome

\* the result stored whether or not the request went wrong
Truthy_Always(raw) == TRUE
\* `if (raw)`: null is falsy, every answer of the library is an object or an
\* array and truthy, empty or not
Truthy(raw) == ~raw.null

\* the list an answer is reshaped into: one element per mark, lesson or
\* assignment, `?? []` for null
MapList(raw, seq) == IF raw.null THEN <<>> ELSE [i \in 1..raw.items |-> seq]

\* lines 70-88, 115-124, 150-162, 187-190: the result built from raw
Reshape(c, raw, seq) ==
  IF c = "averages"
    THEN [NoBody EXCEPT !.value = IF raw.null THEN 0 ELSE raw.items,
                        !.everyone = IF raw.null THEN 0 ELSE raw.items]
    ELSE [NoBody EXCEPT !.list = MapList(raw, seq)]

\* the lookup and, on a miss, the library call up to the await
DataStart(c, u, s, periodic) ==
  LET call == Call(c, u, NoAccount, s, 0, periodic)
  IN /\ Quiet
     /\ IF Cached(c, u)
         THEN /\ returned' = Settled(call, "resolved", TRUE, FALSE, caches[c][u].val)
              /\ UNCHANGED <<pending, issued>>
         ELSE /\ issued < MaxCalls
              /\ Cardinality(pending) < Cardinality(Callers)
              /\ issued' = issued + 1
              /\ pending' = pending \cup {[call EXCEPT !.seq = issued + 1]}
              /\ returned' = NoReturn
     /\ UNCHANGED <<caches, timers, task>>

\* the library promise settled: `await` yields raw (or throws, were the
\* awaited promise rejected), the result is built, stored when raw is truthy,
\* and returned
DataSettle(call, c, outcome) ==
  /\ Quiet
  /\ call \in pending
  /\ call.op = c
  /\ LET awaited == Catch(outcome)
         raw == awaited.raw
         v == [NoValue EXCEPT !.seq = IF raw.null THEN 0 ELSE call.seq,
                              !.via = IF raw.null THEN NoHandle ELSE call.session,
                              !.body = Reshape(c, raw, call.seq)]
     IN IF awaited.rejected
          THEN /\ returned' = Settled(call, "rejected", FALSE, TRUE, NoValue)
               /\ UNCHANGED <<caches, timers>>
          ELSE /\ IF Truthy(raw)
                    THEN /\ caches' = CacheSet(caches, c, call.key, v)
                         /\ timers' = SetTimeout(timers, Timer(c, call.key, cacheTtl))
                    ELSE UNCHANGED <<caches, timers>>
               /\ returned' = Settled(call, "resolved", FALSE, outcome.rejected, v)
  /\ pending' = pending \ {call}
  /\ UNCHANGED <<issued, refresh, task>>

getGradesStart(u, s) == DataStart("grades", u, s, FALSE) /\ UNCHANGED refresh
getGradesSettle(call, outcome) == DataSettle(call, "grades", outcome)

getTimetableStart(u, s) == DataStart("timetable", u, s, FALSE) /\ UNCHANGED refresh
getTimetableSettle(call, outcome) == DataSettle(call, "timetable", outcome)

getHomeworksStart(u, s) == DataStart("homeworks", u, s, FALSE) /\ UNCHANGED refresh
getHomeworksSettle(call, outcome) == DataSettle(call, "homeworks", outcome)

getAveragesStart(u, s) == DataStart("averages", u, s, FALSE) /\ UNCHANGED refresh
getAveragesSettle(call, outcome) == DataSettle(call, "averages", outcome)

\* ------------------------------------------------------------- timers
Due(t) == t.rem = 0

\* lines 48, 93, 128, 166, 194: a deletion callback runs
FireTimer(t) ==
  /\ Quiet
  /\ t \in timers
  /\ Due(t)
  /\ timers' = ClearTimer(timers, t)
  /\ caches' = CacheDelete(caches, t.cache, t.key)
  /\ returned' = NoReturn
  /\ UNCHANGED <<pending, issued, refresh, task>>

\* one tick passes: no callback is due
Tick ==
  /\ Quiet
  /\ \A t \in timers : ~Due(t)
  /\ refresh.op # "none" => refresh.in > 0
  /\ timers' = {[t EXCEPT !.rem = @ - 1] : t \in timers}
  /\ caches' = [c \in CacheNames |-> [u \in Usernames |->
        IF caches[c][u].present /\ caches[c][u].age < AgeCap
          THEN [caches[c][u] EXCEPT !.age = @ + 1]
          ELSE caches[c][u]]]
  /\ refresh' = IF refresh.op = "none" THEN refresh
                ELSE [refresh EXCEPT !.in = @ - 1]
  /\ returned' = NoReturn
  /\ UNCHANGED <<pending, issued, task>>

Next ==
  \/ \E a \in Accounts : GetSessionStart(a)
  \/ \E call \in pending : GetSessionLoggedIn(call)
  \/ \E call \in pending : GetSessionLoginFailed(call)
  \/ \E u \in Usernames : \E s \in SessionsOf(u) : getGradesStart(u, s)
  \/ \E call \in pending, o \in Outcomes : getGradesSettle(call, o)
  \/ \E u \in Usernames : \E s \in SessionsOf(u) : getTimetableStart(u, s)
  \/ \E call \in pending, o \in Outcomes : getTimetableSettle(call, o)
  \/ \E u \in Usernames : \E s \in SessionsOf(u) : getHomeworksStart(u, s)
  \/ \E call \in pending, o \in Outcomes : getHomeworksSettle(call, o)
  \/ \E u \in Usernames : \E s \in SessionsOf(u) : getAveragesStart(u, s)
  \/ \E call \in pending, o \in Outcomes : getAveragesSettle(call, o)
  \/ Resume
  \/ \E t \in timers : FireTimer(t)
  \/ Tick

Spec == Init /\ [][Next]_vars

\* The event loop: an awaiting caller resumes as soon as its promise has
\* settled, a callback that is due runs after finitely many other callbacks,
\* and time passes however many calls are made.  A resuming caller disables
\* the other steps for a moment, hence the strong fairness.  No call is ever
\* required to start, and a library promise need not settle.
FairSpec ==
  /\ Spec
  /\ WF_vars(Resume)
  /\ SF_vars(Tick)
  /\ SF_vars(\E t \in timers : FireTimer(t))

\* ----------------------------------------------------- periodic caller
\* one caller that refreshes one kind of data of one username every
\* config.refreshEvery, starting now
InitPeriodic ==
  /\ caches = [c \in CacheNames |-> [u \in Usernames |-> NoEntry]]
  /\ timers = {}
  /\ pending = {}
  /\ issued = 0
  /\ returned = NoReturn
  /\ \E c \in DataCaches, u \in Usernames :
        refresh = [op |-> c, key |-> u, in |-> 0]
  /\ task = NoTask

\* the refresh is due: the operation is called, and called again after
\* config.refreshEvery
PeriodicRefresh(s) ==
  /\ refresh.op # "none"
  /\ refresh.in = 0
  /\ DataStart(refresh.op, refresh.key, s, TRUE)
  /\ refresh' = [refresh EXCEPT !.in = RefreshEvery]

NextPeriodic ==
  \/ \E s \in SessionsOf(refresh.key) : PeriodicRefresh(s)
  \/ \E call \in pending, o \in Outcomes : getGradesSettle(call, o)
  \/ \E call \in pending, o \in Outcomes : getTimetableSettle(call, o)
  \/ \E call \in pending, o \in Outcomes : getHomeworksSettle(call, o)
  \/ \E call \in pending, o \in Outcomes : getAveragesSettle(call, o)
  \/ Resume
  \/ \E t \in timers : FireTimer(t)
  \/ Tick

SpecPeriodic == InitPeriodic /\ [][NextPeriodic]_vars

\* ------------------------------------------- accounts sharing a username
\* config.accounts with two accounts that have the same username on two
\* servers, each with its own password
SharedAccounts ==
  { [url |-> "a", username |-> "u1", password |-> "x"],
    [url |-> "b", username |-> "u1", password |-> "z"] }

\* the operations called for the accounts of SharedAccounts, a data
\* operation with the account's username and a session of that account
NextShared ==
  \/ \E a \in SharedAccounts : GetSessionStart(a)
  \/ \E call \in pending : GetSessionLoggedIn(call)
  \/ \E call \in pending : GetSessionLoginFailed(call)
  \/ \E a \in SharedAccounts : getGradesStart(a.username, SessionOf(a))
  \/ \E call \in pending, o \in Outcomes : getGradesSettle(call, o)
  \/ \E a \in SharedAccounts : getTimetableStart(a.username, SessionOf(a))
  \/ \E call \in pending, o \in Outcomes : getTimetableSettle(call, o)
  \/ \E a \in SharedAccounts : getHomeworksStart(a.username, SessionOf(a))
  \/ \E call \in pending, o \in Outcomes : getHomeworksSettle(call, o)
  \/ \E a \in SharedAccounts : getAveragesStart(a.username, SessionOf(a))
  \/ \E call \in pending, o \in Outcomes : getAveragesSettle(call, o)
  \/ Resume
  \/ \E t \in timers : FireTimer(t)
  \/ Tick

SpecShared == Init /\ [][NextShared]_vars

\* ------------------------------------------------ get-task-list-id.js
\* google-credentials.json: not there, not JSON, the JSON value null, or a
\* JSON object
Files == {"missing", "unparsable", "null", "valid"}
\* the message of the error lines 10-18 throw for such a file
ReadError(file) ==
  IF file = "missing" THEN "ENOENT"
  ELSE IF file = "unparsable" THEN "SyntaxError"
  ELSE "TypeError"

Titles == {"@default", "My Tasks"}
ListIds == 1..MaxLists
\* the arrays of task lists the API may answer with: up to MaxLists lists,
\* no two with the same id
ItemLists ==
  UNION {{l \in [1..n -> {TaskList(t, i) : t \in Titles, i \in ListIds}] :
            \A i, j \in 1..n : l[i].id = l[j].id => i = j} : n \in 0..MaxLists}
\* how tasks.tasklists.list() settles
Replies ==
  {[NoReply EXCEPT !.rejected = TRUE, !.message = "request failed"], NoReply}
    \cup {[NoReply EXCEPT !.hasItems = TRUE, !.items = l] : l \in ItemLists}

RECURSIVE FindFrom(_, _)
FindFrom(items, i) ==
  IF i > Len(items) THEN Undefined
  ELSE IF items[i].title = "@default" THEN items[i]
  ELSE FindFrom(items, i + 1)
RECURSIVE FindBefore(_, _)
FindBefore(items, i) ==
  IF i < 1 THEN Undefined
  ELSE IF items[i].title = "@default" THEN items[i]
  ELSE FindBefore(items, i - 1)
\* the array searched from its end, findLast for find
Find_Last(items) == FindBefore(items, Len(items))
\* items.find(list => list.title === '@default'): the first match in index
\* order, undefined if there is none
Find(items) == FindFrom(items, 1)
\* items[0]: undefined for an empty array
First(items) == IF Len(items) > 0 THEN items[1] ELSE Undefined
\* x || y: undefined is falsy, a task list is an object and truthy
Or(x, y) == IF x.defined THEN x ELSE y

pronote == <<caches, timers, pending, issued, returned, refresh>>

InitTaskList ==
  /\ caches = [c \in CacheNames |-> [u \in Usernames |-> NoEntry]]
  /\ timers = {}
  /\ pending = {}
  /\ issued = 0
  /\ returned = NoReturn
  /\ refresh = NoRefresh
  /\ \E f \in Files, r \in Replies :
       task = [NoTask EXCEPT !.pc = "start", !.file = f, !.reply = r]

\* lines 10-24: the credentials are read and parsed, the clients built and
\* the request sent, up to the await; an error thrown on the way is caught
getTaskListIdStart ==
  /\ task.pc = "start"
  /\ task' = IF task.file = "valid"
               THEN [task EXCEPT !.pc = "await"]
               ELSE [task EXCEPT !.pc = "catch", !.error = ReadError(task.file)]
  /\ UNCHANGED pronote

\* lines 24-36: the request resolved.  forEach on a missing items and .id
\* of undefined throw a TypeError
getTaskListIdListed ==
  /\ task.pc = "await"
  /\ ~task.reply.rejected
  /\ LET items == task.reply.items
         defaultList == Or(Find(items), First(items))
     IN task' =
          IF ~task.reply.hasItems
            THEN [task EXCEPT !.pc = "catch", !.error = "TypeError"]
          ELSE IF ~defaultList.defined
            THEN [task EXCEPT !.pc = "catch", !.error = "TypeError",
                              !.listed = Len(items)]
          ELSE [task EXCEPT !.pc = "done", !.listed = Len(items),
                            !.result = [how |-> "resolved", defined |-> TRUE,
                                        id |-> defaultList.id]]
  /\ UNCHANGED pronote

\* line 24: the request rejected, the await throws
getTaskListIdRequestFailed ==
  /\ task.pc = "await"
  /\ task.reply.rejected
  /\ task' = [task EXCEPT !.pc = "catch", !.error = task.reply.message]
  /\ UNCHANGED pronote

\* the error thrown again after it is logged
getTaskListIdCatch_Rethrow ==
  /\ task.pc = "catch"
  /\ task' = [task EXCEPT !.pc = "done", !.logged = <<task.error>>,
                          !.result = [how |-> "rejected", defined |-> FALSE,
                                      id |-> 0]]
  /\ UNCHANGED pronote
\* lines 37-44: the error is logged and the function ends without a return
\* statement
getTaskListIdCatch ==
  /\ task.pc = "catch"
  /\ task' = [task EXCEPT !.pc = "done", !.logged = <<task.error>>,
                          !.result = [how |-> "resolved", defined |-> FALSE,
                                      id |-> 0]]
  /\ UNCHANGED pronote

NextTaskList ==
  \/ getTaskListIdStart
  \/ getTaskListIdListed
  \/ getTaskListIdRequestFailed
  \/ getTaskListIdCatch

SpecTaskList == InitTaskList /\ [][NextTaskList]_vars

\* =============================================================== claims
\* the entry of username u in cache c, read off the state
Holds(c, u) == caches[c][u].present
\* the step settled a data operation whose library call was rejected
FailedSettle == returned'.op \in DataCaches /\ returned'.failed
\* pending deletion callbacks for username u of cache c
TimersFor(c, u) == {t \in timers : t.cache = c /\ t.key = u}

\* C1: when the library call of getGrades, getTimetable, getHomeworks or
\* getAverages rejects, the step that settles the operation leaves every
\* cache and the pending timers as they were: no entry is added and no
\* deletion is scheduled.
C1_NoEntryOnFailure ==
  [][FailedSettle => caches' = caches /\ timers' = timers]_vars

\* a data operation has just settled after a rejected library call, and its
\* cache holds nothing for the username
C1_Witness ==
  /\ returned.op \in DataCaches
  /\ returned.failed
  /\ ~Holds(returned.op, returned.key)
  /\ TimersFor(returned.op, returned.key) = {}

\* the result a data operation returns for a library call that failed
C2_Empty(c, body) ==
  IF c = "averages" THEN body.value = 0 /\ body.everyone = 0
  ELSE body.list = <<>>

\* C2: a data operation never rejects, and when its library call was
\* rejected it resolves with the empty result: an empty list, or
\* {value: 0, everyone: 0} for averages.
C2_CatchAndReturnEmpty ==
  returned.op \in DataCaches =>
    /\ returned.how = "resolved"
    /\ returned.failed => C2_Empty(returned.op, returned.val.body)

\* getAverages has resolved after a rejected library call
C2_Witness ==
  /\ returned.op = "averages"
  /\ returned.failed
  /\ returned.how = "resolved"

\* C3 (as claimed): an entry of a data cache is removed exactly cacheTtl
\* after it was inserted, neither sooner nor later, whatever calls happen
\* in between.
C3_DeletedExactlyAtTtl ==
  [][\A c \in DataCaches, u \in Usernames :
       (caches[c][u].present /\ ~caches'[c][u].present)
         => caches[c][u].age = RefreshEvery - ThirtySeconds]_vars

\* some cache holds an entry
SomeEntry == \E c \in CacheNames, u \in Usernames : Holds(c, u)
AllEmpty == ~SomeEntry

\* C4: with timers firing and time passing, every entry of every cache is
\* eventually deleted (whenever a key is held, it is later not held), and
\* once no further library call is issued all caches eventually are empty
\* and stay empty.
C4_EventuallyRemoved ==
  /\ \A c \in CacheNames, u \in Usernames : []<>(~Holds(c, u))
  /\ <>[][issued' = issued]_vars => <>[]AllEmpty

\* the sessions cache and a data cache hold an entry at the same time
C4_Witness ==
  /\ \E u \in Usernames : Holds("sessions", u)
  /\ \E c \in DataCaches, u \in Usernames : Holds(c, u)

\* the calls a step has added to those awaiting the library
Started == pending' \ pending

\* C5: while the sessions cache holds a handle for account.username, a
\* getSession(account) step issues no login, returns the cached handle, and
\* leaves caches, timers and the calls in flight as they were.
C5_SessionReused ==
  [][\A u \in Usernames : caches["sessions"][u].present =>
       /\ ~\E call \in Started : call.op = "sessions" /\ call.key = u
       /\ (returned'.op = "sessions" /\ returned'.key = u /\ returned'.hit) =>
            /\ returned'.how = "resolved"
            /\ returned'.val = caches["sessions"][u].val
            /\ UNCHANGED <<caches, timers, pending, issued>>]_vars

\* getSession has returned the handle the cache holds, a handle another
\* call logged in
C5_Witness ==
  /\ returned.op = "sessions"
  /\ returned.hit
  /\ returned.val.handle.id > 0
  /\ caches["sessions"][returned.key].val = returned.val

\* C6: while a data cache holds a result for a username, a call of that
\* operation for that username issues no library call and returns the
\* stored result.
C6_ResultsCached ==
  [][\A c \in DataCaches, u \in Usernames : caches[c][u].present =>
       /\ ~\E call \in Started : call.op = c /\ call.key = u
       /\ (returned'.op = c /\ returned'.key = u /\ returned'.hit) =>
            /\ returned'.how = "resolved"
            /\ returned'.val = caches[c][u].val
            /\ issued' = issued]_vars

\* a data operation has returned a stored result that is an empty list
C6_Witness ==
  /\ returned.op \in DataCaches \ {"averages"}
  /\ returned.hit
  /\ returned.val.seq > 0
  /\ returned.val.body.list = <<>>

\* C7 (as claimed): the handle cached for a username is never replaced by
\* another handle while it is present.
C7_HandleNeverReplaced ==
  [][\A u \in Usernames :
       (caches["sessions"][u].present /\ caches'["sessions"][u].present)
         => caches'["sessions"][u].val = caches["sessions"][u].val]_vars

\* C8 (as claimed): every call of the periodic caller is a cache miss.  Read
\* in the claim's favour where the refresh and the deletion fall on the same
\* tick: a periodic call finds an entry only if its deletion is due at that
\* very tick.
C8_PeriodicCallsMiss ==
  (returned.periodic /\ returned.hit) =>
    \E t \in TimersFor(returned.op, returned.key) : t.rem = 0

\* the time-to-live the claim names for a cache
C9_Bound(c) ==
  IF c = "sessions" THEN AccountTimeout - TwoMinutes
  ELSE RefreshEvery - ThirtySeconds

C10_NewestIssuedWins ==
  [][\A c \in DataCaches, u \in Usernames :
       (caches[c][u].present /\ caches'[c][u].present
          /\ caches'[c][u].val # caches[c][u].val)
         => caches'[c][u].val.seq > caches[c][u].val.seq]_vars

\* the step settled a data operation whose library call succeeded
Stored(c, u) ==
  /\ returned'.op = c /\ returned'.key = u
  /\ returned'.how = "resolved" /\ ~returned'.hit /\ ~returned'.failed

\* C10 (amended): the entry of a data cache is the result of the successful
\* library call that settled last: a successful settlement stores its own
\* result whatever the cache holds, and nothing else writes an entry.
C10_LastSettledWins ==
  [][\A c \in DataCaches, u \in Usernames :
       /\ Stored(c, u) =>
            caches'[c][u] = [present |-> TRUE, val |-> returned'.val, age |-> 0]
       /\ (caches'[c][u].present /\ caches'[c][u].val # caches[c][u].val)
            => Stored(c, u)]_vars

\* the first call issued has settled after the second: both results were
\* stored (both deletions are still pending) and the cache holds the older
C10_Witness ==
  /\ returned.op \in DataCaches
  /\ returned.how = "resolved" /\ ~returned.hit /\ ~returned.failed
  /\ returned.seq = 1
  /\ issued = 2
  /\ pending = {}
  /\ caches[returned.op][returned.key].val.seq = 1
  /\ \/ \E t \in TimersFor(returned.op, returned.key) : t.n = 2
     \/ Cardinality(TimersFor(returned.op, returned.key)) = 2

\* the step settled a getSession whose login was rejected
FailedLogin == returned'.op = "sessions" /\ returned'.failed

\* C11: when loginCredentials rejects, getSession rejects and returns no
\* handle, and the step leaves every cache and the pending timers as they
\* were; a getSession call returns a cached handle only if the sessions
\* cache held one for the username, so with nothing stored by the failed
\* login the next call for the account issues a login again.
C11_FailedLoginLeavesNothing ==
  [][/\ FailedLogin =>
          /\ returned'.how = "rejected"
          /\ returned'.val = NoValue
          /\ caches' = caches
          /\ timers' = timers
     /\ (returned'.op = "sessions" /\ returned'.hit) =>
          caches["sessions"][returned'.key].present
     /\ \A u \in Usernames :
          (returned.op = "sessions" /\ returned.failed /\ returned.key = u
             /\ ~caches["sessions"][u].present)
            => ~caches'["sessions"][u].present]_vars

\* getSession has just rejected after a failed login: the sessions cache
\* holds nothing for the account, no deletion is pending for it, and a
\* further login can still be issued
C11_Witness ==
  /\ returned.op = "sessions"
  /\ returned.failed
  /\ returned.how = "rejected"
  /\ ~Holds("sessions", returned.key)
  /\ TimersFor("sessions", returned.key) = {}
  /\ issued < MaxCalls

\* C12 (as claimed): the handle getSession(account) returns was logged in
\* with the url, username and password of that very account, and the result
\* a data operation returns was fetched through a session of the account
\* whose session the call was given, also where two accounts have the same
\* username.
C12_OwnAccountOnly ==
  /\ (returned.op = "sessions" /\ returned.how = "resolved") =>
       returned.val.handle.account = returned.account
  /\ (returned.op \in DataCaches /\ returned.how = "resolved"
        /\ returned.val.seq > 0) =>
       returned.val.via.account = returned.session.account

\* what cache c stores for username u, without the age of the entry
Content(cs, c, u) == [present |-> cs[c][u].present, val |-> cs[c][u].val]
\* the deletion callbacks of ts for username u of cache c
TimersIn(ts, c, u) == {t \in ts : t.cache = c /\ t.key = u}
\* time has passed: every pending callback is one tick closer
Elapsed == timers # {} /\ timers' = {[t EXCEPT !.rem = @ - 1] : t \in timers}
\* the step is one of the operation of cache c settling for username u after
\* its library call, or of a deletion callback of cache c and u running
Acts(c, u) ==
  \/ returned'.op = c /\ returned'.key = u /\ ~returned'.hit
  \/ /\ returned' = NoReturn /\ returned = NoReturn /\ pending' = pending
     /\ \E t \in TimersIn(timers, c, u) :
          t.rem = 0 /\ Pending(timers', t) = Pending(timers, t) - 1

\* C13: a step changes what a cache stores for a username, or the deletion
\* callbacks pending for that cache and username, only if it is the
\* operation of that cache settling for that username or a deletion
\* callback of that cache and username; every other entry of every cache
\* and every other callback is left as it was.  A call that is answered
\* from the cache or only starts a library call changes nothing.
C13_OwnCacheAndKeyOnly ==
  [][/\ caches' # caches =>
          \A c \in CacheNames, u \in Usernames :
            Content(caches', c, u) # Content(caches, c, u) => Acts(c, u)
     /\ (timers' # timers /\ ~Elapsed) =>
          \A c \in CacheNames, u \in Usernames :
            TimersIn(timers', c, u) # TimersIn(timers, c, u) => Acts(c, u)
     /\ (returned'.hit \/ Started # {}) =>
          caches' = caches /\ timers' = timers]_vars

\* an operation has just stored a value while the same cache holds an older
\* entry of another username, or another cache an older entry of the same
\* username
C13_Witness ==
  /\ returned.op \in CacheNames
  /\ returned.how = "resolved" /\ ~returned.hit
  /\ Holds(returned.op, returned.key)
  /\ caches[returned.op][returned.key].age = 0
  /\ \E c \in CacheNames, u \in Usernames :
       /\ c = returned.op <=> u # returned.key
       /\ Holds(c, u)
       /\ caches[c][u].age > 0

\* the number of callbacks in the set of timer records ts
RECURSIVE Count(_)
Count(ts) ==
  IF ts = {} THEN 0
  ELSE LET t == CHOOSE x \in ts : TRUE IN t.n + Count(ts \ {t})
\* a deletion callback of cache c and username u that was due has run
Fired(c, u) ==
  \E t \in TimersIn(timers, c, u) :
    t.rem = 0 /\ Pending(timers', t) = Pending(timers, t) - 1

\* C14: in every reachable state a cache that holds an entry for a username
\* has at least one deletion callback pending for that cache and username.
\* A step that inserts an entry schedules exactly one such callback, no
\* other step schedules one, and a callback stops being pending only by
\* running when it is due, one at a time: none is ever cancelled.
C14_EntryHasPendingTimer ==
  /\ [](\A c \in CacheNames, u \in Usernames :
         caches[c][u].present => TimersFor(c, u) # {})
  /\ [][\A c \in CacheNames, u \in Usernames :
         LET before == Count(TimersIn(timers, c, u))
             after == Count(TimersIn(timers', c, u))
             inserted == /\ returned'.op = c /\ returned'.key = u
                         /\ returned'.how = "resolved"
                         /\ ~returned'.hit /\ ~returned'.failed
         IN IF inserted
              THEN caches'[c][u].present /\ after = before + 1
              ELSE \/ TimersIn(timers', c, u) = TimersIn(timers, c, u)
                   \/ after = before
                   \/ after = before - 1 /\ Fired(c, u)]_vars

\* a cache holds an entry for a username while two deletion callbacks are
\* pending for it, one of them due
C14_Witness ==
  \E c \in CacheNames, u \in Usernames :
    /\ Holds(c, u)
    /\ Count(TimersFor(c, u)) = 2
    /\ \E t \in TimersFor(c, u) : t.rem = 0

\* the request for the task lists was made and answered with at least one
\* task list
SomeListReturned ==
  /\ task.file = "valid"
  /\ ~task.reply.rejected
  /\ task.reply.hasItems
  /\ task.reply.items # <<>>
\* the positions of the lists titled '@default' in the answer
Defaults == {i \in 1..Len(task.reply.items) : task.reply.items[i].title = "@default"}

\* C15: when the request for the task lists is answered with at least one
\* list, getTaskListId resolves with the id of the list titled '@default'
\* that comes first in the answer, and with the id of the first list of the
\* answer if none has that title.
C15_DefaultListId ==
  (task.pc = "done" /\ SomeListReturned) =>
    /\ task.result.how = "resolved"
    /\ task.result.defined
    /\ task.result.id =
         IF Defaults # {}
           THEN task.reply.items[CHOOSE i \in Defaults : \A j \in Defaults : i <= j].id
           ELSE task.reply.items[1].id

\* the answer held a list of another title followed by two lists titled
\* '@default', and the id of the first of these two was returned
C15_Witness ==
  /\ task.pc = "done"
  /\ SomeListReturned
  /\ Defaults = {2, 3}
  /\ task.result.defined
  /\ task.result.id = task.reply.items[2].id

\* C16: getTaskListId never rejects.  When the credentials file is missing
\* or cannot be used, the request rejects, or the answer holds no task list,
\* it logs the error and resolves with undefined; it resolves with a list
\* id only when the answer held at least one task list.
C16_NeverRejects ==
  /\ task.result.how # "rejected"
  /\ task.pc = "done" =>
       /\ task.result.how = "resolved"
       /\ ~SomeListReturned =>
            /\ ~task.result.defined
            /\ Len(task.logged) = 1
            /\ task.logged[1] = task.error
            /\ task.error # ""
       /\ task.result.defined => SomeListReturned /\ task.logged = <<>>

\* the request was answered with an empty array of task lists: the error of
\* reading .id of undefined was logged and undefined returned
C16_Witness ==
  /\ task.pc = "done"
  /\ task.file = "valid"
  /\ ~task.reply.rejected
  /\ task.reply.hasItems
  /\ task.reply.items = <<>>
  /\ task.result.how = "resolved"
  /\ ~task.result.defined
  /\ task.logged = <<"TypeError">>

====
